---------------------------- MODULE Spec2Model ----------------------------
(***************************************************************************)
(* Data-availability certificate recovery (daprovider/das/dasutil) of      *)
(* nitro: RecoverPayloadFromDasBatch and the codecs and the signature      *)
(* check it is built from, as a state machine over byte strings.           *)
(*                                                                         *)
(* A uint64 is a tuple of four 16-bit limbs, least significant first, so   *)
(* that 64-bit arithmetic is exact and wraps at 2^64 as in Go.             *)
(* A []byte is a sequence of 0..255.                                       *)
(***************************************************************************)
EXTENDS Integers, Sequences, FiniteSets, TLC

(***************************************************************************)
(* Bytes and 64-bit unsigned integers                                      *)
(***************************************************************************)
Zeros(n) == [i \in 1..n |-> 0]

Limb == 2 ^ 16

\* A uint64 from a natural number below 2^31.
U64FromNat(n) == <<n % Limb, (n \div Limb) % Limb, 0, 0>>

\* 2^64 - 1 - n, for a natural number n below 2^16.
U64MaxMinus(n) == <<Limb - 1 - n, Limb - 1, Limb - 1, Limb - 1>>

\* The carry out of limb i (1..4) of a + b; Carry(a, b, 0) = 0.
RECURSIVE Carry(_, _, _)
Carry(a, b, i) ==
    IF i = 0 THEN 0 ELSE (a[i] + b[i] + Carry(a, b, i - 1)) \div Limb

\* Go's a + b on uint64: the sum modulo 2^64.
U64Add(a, b) == [i \in 1..4 |-> (a[i] + b[i] + Carry(a, b, i - 1)) % Limb]

\* Whether the mathematical sum a + b is 2^64 or more.
U64AddOverflows(a, b) == Carry(a, b, 4) = 1

\* Go's a < b on uint64.
U64Less(a, b) ==
    \E i \in 1..4 : a[i] < b[i] /\ \A j \in (i + 1)..4 : a[j] = b[j]

\* Bit i (0..63) of a uint64: (1<<i)&m != 0.
U64Bit(m, i) == (m[(i \div 16) + 1] \div (2 ^ (i % 16))) % 2 = 1

\* binary.BigEndian.Uint64 of an 8-byte string.
BigEndianUint64(b) ==
    <<b[7] * 256 + b[8], b[5] * 256 + b[6], b[3] * 256 + b[4], b[1] * 256 + b[2]>>

\* binary.BigEndian.PutUint64: the 8 bytes of a uint64, most significant first.
BigEndianPutUint64(v) ==
    <<v[4] \div 256, v[4] % 256, v[3] \div 256, v[3] % 256,
      v[2] \div 256, v[2] % 256, v[1] \div 256, v[1] % 256>>

\* The bytes rd[from..from+n-1].
Slice(rd, from, n) == SubSeq(rd, from, from + n - 1)

(***************************************************************************)
(* Hashing.  Keccak-256 is collision free on the strings the model hashes: *)
(* a string of at most 30 bytes, or a tree leaf (LeafByte followed by a    *)
(* 32-byte hash).  The 32 bytes returned determine the string hashed.      *)
(***************************************************************************)
HashLen == 32

LeafByte == 254

MaxHashed == HashLen - 2

IsLeaf(x) == Len(x) = HashLen + 1 /\ x[1] = LeafByte /\ x[2] \in 1..200

Keccak256Hash(x) ==
    IF IsLeaf(x)
    THEN <<x[2] + 16>> \o SubSeq(x, 3, HashLen + 1)
    ELSE IF Len(x) <= MaxHashed
         THEN <<1, Len(x)>> \o x \o Zeros(MaxHashed - Len(x))
         ELSE <<255>> \o Zeros(HashLen - 1)

\* dastree.FlatHashToTreeLeaf
FlatHashToTreeLeaf(h) == <<LeafByte>> \o h

\* dastree.FlatHashToTreeHash
FlatHashToTreeHash(h) == Keccak256Hash(FlatHashToTreeLeaf(h))

\* dastree.Hash of a string of one bin: the leaf over the bin's flat hash.
TreeHash(x) == Keccak256Hash(FlatHashToTreeLeaf(Keccak256Hash(x)))

(***************************************************************************)
(* BLS signatures, as a black box with its algebra: a signature is made by *)
(* a set of keys over a message, an aggregate of no keys is the point at   *)
(* infinity (96 zero bytes), and it verifies against an aggregated public  *)
(* key exactly when that key aggregates the keys that signed it.           *)
(***************************************************************************)
SigLen == 96

MaxKeyId == 3

\* The BLS keys there are, by number.
KeyIds == 1..MaxKeyId

RECURSIVE SetBits(_)
SetBits(S) ==
    IF S = {} THEN 0
    ELSE LET k == CHOOSE k \in S : TRUE IN 2 ^ (k - 1) + SetBits(S \ {k})

\* The signature of the keys S over the message m.
BlsSign(S, m) ==
    IF S = {} THEN Zeros(SigLen)
    ELSE <<1, SetBits(S), Len(m)>> \o m \o Zeros(SigLen - 3 - Len(m))

\* blsSignatures.SignatureFromBytes: fails on bytes that are no curve point.
SignatureFromBytesErr(b) == b[1] = 255

\* blsSignatures.PublicKeyToBytes of key k, with a valid proof of possession.
PublicKeyToBytes(k) == <<k, 1>>

\* blsSignatures.PublicKeyFromBytes: fails on bytes that are no key, and,
\* for an untrusted source, on a key whose proof does not validate.
PublicKeyFromBytesErr(buf, trustedSource) ==
    \/ Len(buf) # 2
    \/ buf[1] \notin KeyIds
    \/ (~trustedSource /\ buf[2] # 1)

PublicKeyFromBytes(buf) == buf[1]

\* blsSignatures.VerifySignature against AggregatePublicKeys(pubkeys).
BlsVerify(sig, data, pubkeys) ==
    LET S == {pubkeys[i] : i \in 1..Len(pubkeys)} IN
    /\ Cardinality(S) = Len(pubkeys)
    /\ sig = BlsSign(S, data)

(***************************************************************************)
(* The certificate codec                                                   *)
(***************************************************************************)
DASMessageHeaderFlag == 128

TreeDASMessageHeaderFlag == 8

\* daprovider.hasBits for a one-bit flag.
hasBits(checking, bits) == (checking \div bits) % 2 = 1

IsDASMessageHeaderByte(header) == hasBits(header, DASMessageHeaderFlag)

IsTreeDASMessageHeaderByte(header) == hasBits(header, TreeDASMessageHeaderFlag)

NoCert ==
    [KeysetHash |-> Zeros(HashLen), DataHash |-> Zeros(HashLen),
     Timeout |-> U64FromNat(0), SignersMask |-> U64FromNat(0),
     Sig |-> Zeros(SigLen), Version |-> 0]

\* DeserializeDASCertFrom: [err, c].  Each io.ReadFull fails on a short read.
DeserializeDASCertFrom(rd) ==
    LET n      == Len(rd)
        header == rd[1]
        tree   == IsTreeDASMessageHeaderByte(header)
        off    == IF tree THEN 75 ELSE 74
        fail   == [err |-> TRUE, c |-> NoCert]
    IN
    IF n < 1 THEN fail
    ELSE IF ~IsDASMessageHeaderByte(header) THEN fail
    ELSE IF n < 1 + HashLen THEN fail
    ELSE IF n < 1 + 2 * HashLen THEN fail
    ELSE IF n < 1 + 2 * HashLen + 8 THEN fail
    ELSE IF tree /\ n < 1 + 2 * HashLen + 9 THEN fail
    ELSE IF n < off - 1 + 8 THEN fail
    ELSE IF n < off - 1 + 8 + SigLen THEN fail
    ELSE IF SignatureFromBytesErr(Slice(rd, off + 8, SigLen)) THEN fail
    ELSE [err |-> FALSE,
          c   |-> [KeysetHash  |-> Slice(rd, 2, HashLen),
                   DataHash    |-> Slice(rd, 2 + HashLen, HashLen),
                   Timeout     |-> BigEndianUint64(Slice(rd, 2 + 2 * HashLen, 8)),
                   SignersMask |-> BigEndianUint64(Slice(rd, off, 8)),
                   Sig         |-> Slice(rd, off + 8, SigLen),
                   Version     |-> IF tree THEN rd[74] ELSE 0]]

\* SerializeSignableFields with the signers mask among the signed bytes.
SerializeSignableFieldsWithMask(c) ==
    c.DataHash \o BigEndianPutUint64(c.Timeout)
        \o (IF c.Version # 0 THEN <<c.Version>> ELSE <<>>)
        \o BigEndianPutUint64(c.SignersMask)

\* DataAvailabilityCertificate.SerializeSignableFields
SerializeSignableFields(c) ==
    c.DataHash \o BigEndianPutUint64(c.Timeout)
        \o (IF c.Version # 0 THEN <<c.Version>> ELSE <<>>)

\* Serialize without the TREE flag, whatever the version.
SerializeNoTreeFlag(c) ==
    <<DASMessageHeaderFlag>> \o c.KeysetHash \o SerializeSignableFields(c)
        \o BigEndianPutUint64(c.SignersMask) \o c.Sig

\* Serialize
Serialize(c) ==
    LET flags == IF c.Version # 0
                 THEN DASMessageHeaderFlag + TreeDASMessageHeaderFlag
                 ELSE DASMessageHeaderFlag
    IN <<flags>> \o c.KeysetHash \o SerializeSignableFields(c)
         \o BigEndianPutUint64(c.SignersMask) \o c.Sig

(***************************************************************************)
(* The keyset codec and the signature check                                *)
(***************************************************************************)
NoKeyset == [AssumedHonest |-> U64FromNat(0), PubKeys |-> <<>>]

\* One pass of the loop of DeserializeKeyset: the key of rd at byte pos, and
\* the byte after it.
ReadPubKey(rd, pos, assumeKeysetValid) ==
    LET fail == [err |-> TRUE, keys |-> <<>>, pos |-> pos] IN
    IF Len(rd) < pos + 1 THEN fail
    ELSE LET pkLen == rd[pos] * 256 + rd[pos + 1]
             buf   == Slice(rd, pos + 2, pkLen)
         IN IF Len(rd) < pos + 1 + pkLen THEN fail
            ELSE IF PublicKeyFromBytesErr(buf, assumeKeysetValid) THEN fail
            ELSE [err |-> FALSE, keys |-> <<PublicKeyFromBytes(buf)>>,
                  pos |-> pos + 2 + pkLen]

\* The loop of DeserializeKeyset: reads `remaining` keys of rd from byte pos,
\* in order, and stops at the first that fails.  The passes are grouped in
\* halves to keep the evaluation shallow.
RECURSIVE ReadPubKeys(_, _, _, _)
ReadPubKeys(rd, pos, remaining, assumeKeysetValid) ==
    IF remaining = 0 THEN [err |-> FALSE, keys |-> <<>>, pos |-> pos]
    ELSE IF remaining = 1 THEN ReadPubKey(rd, pos, assumeKeysetValid)
    ELSE LET first == ReadPubKeys(rd, pos, remaining \div 2, assumeKeysetValid)
         IN IF first.err THEN [err |-> TRUE, keys |-> <<>>, pos |-> pos]
            ELSE LET rest == ReadPubKeys(rd, first.pos,
                                         remaining - remaining \div 2,
                                         assumeKeysetValid)
                 IN IF rest.err THEN [err |-> TRUE, keys |-> <<>>, pos |-> pos]
                    ELSE [err  |-> FALSE,
                          keys |-> first.keys \o rest.keys,
                          pos  |-> rest.pos]

\* DeserializeKeyset rejecting 64 keys as well.
DeserializeKeysetGe64(rd, assumeKeysetValid) ==
    LET fail == [err |-> TRUE, keyset |-> NoKeyset] IN
    IF Len(rd) < 8 THEN fail
    ELSE IF Len(rd) < 16 THEN fail
    ELSE LET assumedHonest == BigEndianUint64(Slice(rd, 1, 8))
             numKeys       == BigEndianUint64(Slice(rd, 9, 8))
         IN
         IF ~U64Less(numKeys, U64FromNat(64)) THEN fail
         ELSE LET r == ReadPubKeys(rd, 17, numKeys[1], assumeKeysetValid) IN
              IF r.err THEN fail
              ELSE [err    |-> FALSE,
                    keyset |-> [AssumedHonest |-> assumedHonest,
                                PubKeys       |-> r.keys]]

\* DeserializeKeyset: [err, keyset].
DeserializeKeyset(rd, assumeKeysetValid) ==
    LET fail == [err |-> TRUE, keyset |-> NoKeyset] IN
    IF Len(rd) < 8 THEN fail
    ELSE IF Len(rd) < 16 THEN fail
    ELSE LET assumedHonest == BigEndianUint64(Slice(rd, 1, 8))
             numKeys       == BigEndianUint64(Slice(rd, 9, 8))
         IN
         IF U64Less(U64FromNat(64), numKeys) THEN fail
         ELSE LET r == ReadPubKeys(rd, 17, numKeys[1], assumeKeysetValid) IN
              IF r.err THEN fail
              ELSE [err    |-> FALSE,
                    keyset |-> [AssumedHonest |-> assumedHonest,
                                PubKeys       |-> r.keys]]

\* DataAvailabilityKeyset.Serialize
RECURSIVE SerializePubKeys(_)
SerializePubKeys(keys) ==
    IF keys = <<>> THEN <<>>
    ELSE LET pkBuf == PublicKeyToBytes(Head(keys)) IN
         <<Len(pkBuf) \div 256, Len(pkBuf) % 256>> \o pkBuf
             \o SerializePubKeys(Tail(keys))

KeysetSerialize(keyset) ==
    BigEndianPutUint64(keyset.AssumedHonest)
        \o BigEndianPutUint64(U64FromNat(Len(keyset.PubKeys)))
        \o SerializePubKeys(keyset.PubKeys)

\* The loop of VerifySignature over indices i..N-1: the keys whose bit is set.
RECURSIVE SignerKeys(_, _, _)
SignerKeys(keyset, signersMask, i) ==
    IF i >= Len(keyset.PubKeys) THEN <<>>
    ELSE (IF U64Bit(signersMask, i) THEN <<keyset.PubKeys[i + 1]>> ELSE <<>>)
             \o SignerKeys(keyset, signersMask, i + 1)

\* The loop of VerifySignature: numNonSigners.
NumNonSigners(keyset, signersMask) ==
    Cardinality({i \in 0..(Len(keyset.PubKeys) - 1) : ~U64Bit(signersMask, i)})

\* VerifySignature with the threshold compared by > where the code has >=.
VerifySignatureGt(keyset, signersMask, data, sig, blsErr) ==
    IF U64Less(keyset.AssumedHonest, U64FromNat(NumNonSigners(keyset, signersMask)))
    THEN "not enough signers"
    ELSE IF blsErr THEN "bls error"
    ELSE IF ~BlsVerify(sig, data, SignerKeys(keyset, signersMask, 0))
    THEN "bad signature"
    ELSE "nil"

\* VerifySignature with the threshold check left out for assumed_honest = 0.
VerifySignatureZeroHonest(keyset, signersMask, data, sig, blsErr) ==
    IF /\ keyset.AssumedHonest # U64FromNat(0)
       /\ ~U64Less(U64FromNat(NumNonSigners(keyset, signersMask)), keyset.AssumedHonest)
    THEN "not enough signers"
    ELSE IF blsErr THEN "bls error"
    ELSE IF ~BlsVerify(sig, data, SignerKeys(keyset, signersMask, 0))
    THEN "bad signature"
    ELSE "nil"

\* DataAvailabilityKeyset.VerifySignature: the error it returns ("nil": none).
\* blsErr: the library's VerifySignature returns an error.
VerifySignature(keyset, signersMask, data, sig, blsErr) ==
    IF ~U64Less(U64FromNat(NumNonSigners(keyset, signersMask)), keyset.AssumedHonest)
    THEN "not enough signers"
    ELSE IF blsErr THEN "bls error"
    ELSE IF ~BlsVerify(sig, data, SignerKeys(keyset, signersMask, 0))
    THEN "bad signature"
    ELSE "nil"

(***************************************************************************)
(* RecoverPayloadFromDasBatch                                              *)
(***************************************************************************)
\* MinLifetimeSecondsForDataAvailabilityCert, one week.
MinLifetimeSecondsForDataAvailabilityCert == U64FromNat(7 * 24 * 60 * 60)

\* dastree.RecordHash of a string of one bin: the bin under its flat hash and
\* the leaf under the tree hash.
RecordHash(x) ==
    {<<Keccak256Hash(x), x>>,
     <<TreeHash(x), FlatHashToTreeLeaf(Keccak256Hash(x))>>}

\* What RecoverPayloadFromDasBatch returns: (payload, preimages, err), each
\* nil or not; "panic" is a run-time panic instead of a return.
Returned(payloadNil, payload, preimagesNil, err) ==
    [panic |-> FALSE, payloadNil |-> payloadNil, payload |-> payload,
     preimagesNil |-> preimagesNil, err |-> err]

SoftSkip == Returned(TRUE, <<>>, TRUE, "nil")

HardError(err) == Returned(TRUE, <<>>, TRUE, err)

Panicked == [panic |-> TRUE, payloadNil |-> TRUE, payload |-> <<>>,
             preimagesNil |-> TRUE, err |-> "nil"]

NoReturn == [panic |-> FALSE, payloadNil |-> TRUE, payload |-> <<>>,
             preimagesNil |-> TRUE, err |-> "none"]

VARIABLES
    pc,             \* where the call is: idle, deserialize, ..., done
    sequencerMsg,   \* argument: the sequencer message
    validateSeqMsg, \* argument
    preimages,      \* argument: [nil, map], map a set of <<hash, bytes>>
    preimagesBefore, \* the preimages argument as it was when the call began
    cert,           \* the certificate parsed from sequencerMsg[40:]
    keysetPreimage, \* what the keyset fetcher returned
    keyset,         \* the deserialized keyset
    verifyErr,      \* what VerifySignature returned ("none": not called)
    payload,        \* what the DAS reader returned
    fetcherCalls,   \* the calls of keysetFetcher.GetKeysetByHash, in order:
                    \* [hash, err, data], the hash asked and the answer
    readerCalls,    \* the calls of dasReader.GetByHash, likewise
    ret             \* what the call returned

recoverVars ==
    <<pc, sequencerMsg, validateSeqMsg, preimages, preimagesBefore, cert,
      keysetPreimage, keyset, verifyErr, payload, fetcherCalls, readerCalls, ret>>

args == <<sequencerMsg, validateSeqMsg, preimagesBefore>>

(***************************************************************************)
(* The inputs the model draws from                                         *)
(***************************************************************************)
MaxPayloadLen == 2

\* The payloads the DAS reader may return.
PayloadSet == {[i \in 1..n |-> 170] : n \in 1..MaxPayloadLen}

Payload1 == <<170>>

MkKeyset(assumedHonest, keys) ==
    [AssumedHonest |-> U64FromNat(assumedHonest), PubKeys |-> keys]

\* The keyset the certificates name, and the byte strings the keyset fetcher
\* may return: serialized keysets, one cut short, one with an unproven key.
Keyset1 == MkKeyset(1, <<1, 2, 3>>)

\* Keyset1 cut short inside its first key.
TruncatedKeysetBytes == SubSeq(KeysetSerialize(Keyset1), 1, 19)

\* A keyset of keys 1 and 2 whose key 2 comes without a valid proof.
UnprovenKeysetBytes ==
    BigEndianPutUint64(U64FromNat(2)) \o BigEndianPutUint64(U64FromNat(2))
        \o <<0, 2, 1, 1, 0, 2, 2, 0>>

KeysetBytesSet ==
    { KeysetSerialize(Keyset1),
      KeysetSerialize(MkKeyset(2, <<1, 2>>)),
      KeysetSerialize(MkKeyset(3, <<1, 2>>)),
      KeysetSerialize(MkKeyset(0, <<1, 2>>)),
      TruncatedKeysetBytes,
      UnprovenKeysetBytes }

VersionSet == {0, 1, 2}

DataHashSet == {Keccak256Hash(Payload1), TreeHash(Payload1)}

TimeoutSet == {U64FromNat(604799), U64FromNat(604800), U64MaxMinus(0)}

MaxTimestampSet == {U64FromNat(0), U64FromNat(1), U64MaxMinus(0)}

SignersMaskSet == {U64FromNat(0), U64FromNat(1), U64FromNat(3), U64FromNat(7)}

SignerSets == {{}, {1}, {1, 2}, {1, 2, 3}}

\* The signatures a certificate may carry: by each set of signers over its
\* signable fields, and one over another message.
SigSet(c) ==
    {BlsSign(S, SerializeSignableFields(c)) : S \in SignerSets}
        \cup {BlsSign({1, 2}, <<0>>)}

\* The sequencer message of a certificate: 40 bytes of header, with the
\* maximum timestamp at [8..16), then the serialized certificate.
SequencerMsg(maxTimestamp, certBytes) ==
    Zeros(8) \o BigEndianPutUint64(maxTimestamp) \o Zeros(24) \o certBytes

\* The certificates, before they are signed.
UnsignedCerts ==
    [KeysetHash : {TreeHash(KeysetSerialize(Keyset1))}, DataHash : DataHashSet,
     Timeout : TimeoutSet, SignersMask : SignersMaskSet, Sig : {Zeros(SigLen)},
     Version : VersionSet]

WellFormedMsgs ==
    UNION { { SequencerMsg(mt, Serialize([c EXCEPT !.Sig = sig])) :
                mt \in MaxTimestampSet, sig \in SigSet(c) } :
            c \in UnsignedCerts }

\* Messages that hold no certificate: too short for the header, cut inside
\* the certificate, without the DAS header bit, with a signature that is no
\* curve point.
BaseCert ==
    [KeysetHash |-> TreeHash(KeysetSerialize(Keyset1)),
     DataHash |-> TreeHash(Payload1), Timeout |-> U64FromNat(604800),
     SignersMask |-> U64FromNat(7), Sig |-> Zeros(SigLen), Version |-> 1]

BaseMsg == SequencerMsg(U64FromNat(0), Serialize(BaseCert))

MalformedMsgs ==
    { SubSeq(BaseMsg, 1, n) : n \in {0, 39, 40, 41, 73, 105, 113, 114, 122, Len(BaseMsg) - 1} }
        \cup { [BaseMsg EXCEPT ![41] = 8] }
        \cup { [BaseMsg EXCEPT ![41 + 82] = 255] }

MsgSet == WellFormedMsgs \cup MalformedMsgs

\* An answer of the fetcher or the reader: whether it is an error, the bytes
\* returned, and the error value ("nil": none).
Response(err, data) ==
    [err |-> err, data |-> data, why |-> IF err THEN "fetch failed" ELSE "nil"]

\* The error values dasReader.GetByHash may return.
ReaderErrors == {"not found", "transport"}

ResponseErr(why) == [err |-> TRUE, data |-> <<>>, why |-> why]

\* What keysetFetcher.GetKeysetByHash may do: fail, or return any bytes.
FetcherResponses ==
    {Response(TRUE, <<>>)} \cup {Response(FALSE, b) : b \in KeysetBytesSet}

\* What dasReader.GetByHash may do: fail, or return any payload.
ReaderResponses ==
    {ResponseErr(e) : e \in ReaderErrors} \cup {Response(FALSE, p) : p \in PayloadSet}

\* A call of the fetcher or the reader, as the call logs keep it.
Called(hash, resp) ==
    [hash |-> hash, err |-> resp.err, data |-> resp.data, why |-> resp.why]

NoPreimages == [nil |-> TRUE, map |-> {}]

\* An entry a caller's map may hold before the call.
EarlierPreimage == <<Keccak256Hash(<<1>>), <<1>>>>

PreimagesSet ==
    {NoPreimages, [nil |-> FALSE, map |-> {}],
     [nil |-> FALSE, map |-> {EarlierPreimage}]}

(***************************************************************************)
(* RedisStorageService: the signed cache in front of a base storage        *)
(* service.  HMAC-Keccak256 is collision free on the messages the model    *)
(* signs (at most 29 bytes) under keys that differ in their last byte.     *)
(***************************************************************************)
\* hmac.New(sha3.NewLegacyKeccak256, key), Write(message), Sum(nil).
Hmac(key, message) ==
    IF Len(message) <= HashLen - 3
    THEN <<3, key[HashLen], Len(message)>> \o message
             \o Zeros(HashLen - 3 - Len(message))
    ELSE <<255, key[HashLen]>> \o Zeros(HashLen - 2)

\* RedisStorageService.signMessage: mac.Sum(message), the message then its tag.
signMessage(signingKey, message) == message \o Hmac(signingKey, message)

\* RedisStorageService.verifyMessageSignature with the tag never compared.
verifyMessageSignatureNoCompare(signingKey, data) ==
    IF Len(data) < HashLen
    THEN [err |-> "data is too short", message |-> <<>>]
    ELSE [err |-> "nil", message |-> SubSeq(data, 1, Len(data) - HashLen)]

\* RedisStorageService.verifyMessageSignature: [err, message].
verifyMessageSignature(signingKey, data) ==
    IF Len(data) < HashLen
    THEN [err |-> "data is too short", message |-> <<>>]
    ELSE LET message  == SubSeq(data, 1, Len(data) - HashLen)
             haveHmac == SubSeq(data, Len(data) - HashLen + 1, Len(data))
         IN IF haveHmac # Hmac(signingKey, message)
            THEN [err |-> "HMAC doesn't match", message |-> <<>>]
            ELSE [err |-> "nil", message |-> message]

\* A string is a sequence of character codes.  The value of a hex digit,
\* -1 for any other character (encoding/hex's reverseHexTable).
HexDigit(c) ==
    IF c \in 48..57 THEN c - 48
    ELSE IF c \in 97..102 THEN c - 87
    ELSE IF c \in 65..70 THEN c - 55
    ELSE -1

\* common.has0xPrefix
has0xPrefix(str) == Len(str) >= 2 /\ str[1] = 48 /\ str[2] \in {120, 88}

\* common.Hex2Bytes: hex.DecodeString with its error dropped, which leaves
\* the bytes decoded before the first character that is no hex digit.
RECURSIVE Hex2Bytes(_)
Hex2Bytes(str) ==
    IF Len(str) < 2 THEN <<>>
    ELSE IF HexDigit(str[1]) < 0 \/ HexDigit(str[2]) < 0 THEN <<>>
    ELSE <<16 * HexDigit(str[1]) + HexDigit(str[2])>>
             \o Hex2Bytes(SubSeq(str, 3, Len(str)))

\* common.FromHex: drops a 0x prefix, pads an odd length with a leading 0.
FromHex(str) ==
    LET s1 == IF has0xPrefix(str) THEN SubSeq(str, 3, Len(str)) ELSE str
        s2 == IF Len(s1) % 2 = 1 THEN <<48>> \o s1 ELSE s1
    IN Hex2Bytes(s2)

\* common.BytesToHash: crops a long string from the left, pads a short one
\* with zeros on the left.
BytesToHash(b) ==
    IF Len(b) > HashLen THEN SubSeq(b, Len(b) - HashLen + 1, Len(b))
    ELSE Zeros(HashLen - Len(b)) \o b

\* common.HexToHash
HexToHash(str) == BytesToHash(FromHex(str))

\* The key-config strings the model constructs the service with: 64 hex
\* digits (63 zeros and a 1), 64 zeros, the 2 digits 01, 66 digits (11, 62
\* zeros, 01), no hex at all (zz), 01 followed by no hex (01zz), nothing.
HexChars(n, last) == [i \in 1..n |-> IF i = n THEN last ELSE 48]

KeyConfigSet ==
    { HexChars(2 * HashLen, 49),
      HexChars(2 * HashLen, 48),
      <<48, 49>>,
      <<49, 49>> \o HexChars(2 * HashLen, 49),
      <<122, 122>>,
      <<48, 49, 122, 122>>,
      <<>> }

\* RedisConfig.Url: one redisutil.RedisClientFromURL accepts, one it refuses.
UrlSet == {"redis://localhost", "not a url"}

RedisClientFromURLErr(url) == url = "not a url"

\* DefaultRedisConfig.Expiration, in seconds.
DefaultExpiration == 60 * 60

\* The values stored, and the Redis keys there are.
RedisValues == {Payload1, Payload1 \o Payload1}

RedisKeys == {TreeHash(v) : v \in RedisValues}

\* A Redis entry: its bytes, its time to live, and who wrote it.
NoEntry == [present |-> FALSE, data |-> <<>>, ttl |-> 0, by |-> "none"]

Entry(data, ttl, by) == [present |-> TRUE, data |-> data, ttl |-> ttl, by |-> by]

\* A key the service is never constructed with.
ForeignKey == [i \in 1..HashLen |-> 9]

\* What a party without the signing key may write: too few bytes for a tag,
\* a value with a tag under another key.
TamperData == { Zeros(HashLen - 1), signMessage(ForeignKey, Payload1) }

NoService ==
    [constructed |-> FALSE, closed |-> FALSE, signingKey |-> Zeros(HashLen),
     Expiration |-> 0]

\* The record of the last call of the service and of what it met; calls:
\* the calls Close and HealthCheck made of the client and the base, in order.
NoCall ==
    [op |-> "none", keyConfig |-> <<>>, key |-> <<>>, value |-> <<>>,
     hit |-> FALSE, entry |-> <<>>, cacheErr |-> "nil",
     baseCalled |-> FALSE, baseErr |-> FALSE, baseData |-> <<>>,
     setCalled |-> FALSE, setErr |-> FALSE,
     calls |-> <<>>,
     retNil |-> TRUE, ret |-> <<>>, err |-> "nil"]

VARIABLES
    rs,      \* the RedisStorageService constructed: its signing key and TTL
    redis,   \* the Redis server: the entry under each key
    acked,   \* the values the base storage service acknowledged a Put of
    baseGot, \* the <<key, value>> the base returned from a GetByHash
    rlast    \* the last call of the service

redisVars == <<rs, redis, acked, baseGot, rlast>>

\* No service: the state of the cache while another part of the system runs.
RedisIdle ==
    /\ rs = NoService
    /\ redis = [k \in RedisKeys |-> NoEntry]
    /\ acked = {}
    /\ baseGot = {}
    /\ rlast = NoCall

(***************************************************************************)
(* The certificate codec applied to a certificate drawn at the start       *)
(***************************************************************************)
\* The certificates the codec is applied to: either layout, every version
\* byte of interest, signatures that are curve points.
CodecVersionSet == {0, 1, 2, 255}

CodecCerts ==
    [KeysetHash : {TreeHash(KeysetSerialize(Keyset1)), Zeros(HashLen)},
     DataHash : DataHashSet,
     Timeout : TimeoutSet \cup {U64FromNat(0)},
     SignersMask : SignersMaskSet \cup {U64MaxMinus(0)},
     Sig : {Zeros(SigLen), BlsSign({1, 2}, <<0>>)},
     Version : CodecVersionSet]

VARIABLES
    codecPc,    \* start, serialized, deserialized
    codecCert,  \* the certificate serialized
    codecBytes, \* Serialize(codecCert)
    codecSignable, \* codecCert.SerializeSignableFields()
    codecOut    \* DeserializeDASCertFrom(codecBytes): [err, c]

codecVars == <<codecPc, codecCert, codecBytes, codecSignable, codecOut>>

NoCodecOut == [err |-> FALSE, c |-> NoCert]

CodecIdle ==
    /\ codecPc = "idle"
    /\ codecCert = NoCert
    /\ codecBytes = <<>>
    /\ codecSignable = <<>>
    /\ codecOut = NoCodecOut

(***************************************************************************)
(* The keyset codec: the keysets it is applied to, and its state           *)
(***************************************************************************)
\* A sequence of n keys.
RepeatKeys(n) == [i \in 1..n |-> ((i - 1) % MaxKeyId) + 1]

\* No key, every sequence of one or two keys, three keys, as many keys as a
\* serialized keyset may declare, and one more.
KeySeqs ==
    {RepeatKeys(n) : n \in {0, 3, 64, 65}}
        \cup {<<a>> : a \in KeyIds}
        \cup {<<a, b>> : a \in KeyIds, b \in KeyIds}

CodecKeysets ==
    [AssumedHonest : {U64FromNat(0), U64FromNat(1), U64MaxMinus(0)},
     PubKeys : KeySeqs]

\* Key counts over the limit that serialized bytes may declare: 65,
\* 2^32 + 1, 2^64 - 1.
DeclaredNumKeys == {U64FromNat(65), <<1, 0, 1, 0>>, U64MaxMinus(0)}

VARIABLES
    ksPc,     \* start, serialized, declared, deserialized
    ksKeyset, \* the keyset serialized
    ksBytes,  \* the bytes handed to DeserializeKeyset
    ksAssume, \* assumeKeysetValid
    ksOut     \* DeserializeKeyset(ksBytes, ksAssume): [err, keyset]

keysetVars == <<ksPc, ksKeyset, ksBytes, ksAssume, ksOut>>

NoKeysetOut == [err |-> FALSE, keyset |-> NoKeyset]

KeysetIdle ==
    /\ ksPc = "idle"
    /\ ksKeyset = NoKeyset
    /\ ksBytes = <<>>
    /\ ksAssume = FALSE
    /\ ksOut = NoKeysetOut

(***************************************************************************)
(* writerForDAS: the calls made of Store, and its state                    *)
(***************************************************************************)
\* What dasWriter.Store returns as its error.
WriterErrors ==
    {"nil", "ErrBatchToDasFailed", "wrapped ErrBatchToDasFailed", "other"}

\* errors.Is(err, ErrBatchToDasFailed)
IsErrBatchToDasFailed(err) ==
    err \in {"ErrBatchToDasFailed", "wrapped ErrBatchToDasFailed"}

\* The certificates dasWriter.Store returns.
WriterCerts ==
    {c \in CodecCerts : /\ c.KeysetHash = TreeHash(KeysetSerialize(Keyset1))
                        /\ c.SignersMask = U64FromNat(3)
                        /\ c.Sig = BlsSign({1, 2}, <<0>>)}

\* The messages Store is called with: payloads, and bytes that read as a
\* certificate.
StoreMessages == PayloadSet \cup {Serialize(BaseCert)}

\* writerForDAS.Store without the check of disableFallbackStoreDataOnChain.
StoreResultAlwaysFallback(message, wcert, werr, disableFallbackStoreDataOnChain) ==
    IF IsErrBatchToDasFailed(werr)
    THEN [retNil |-> FALSE, ret |-> message, err |-> "nil"]
    ELSE IF werr # "nil"
    THEN [retNil |-> TRUE, ret |-> <<>>, err |-> werr]
    ELSE [retNil |-> FALSE, ret |-> Serialize(wcert), err |-> "nil"]

\* writerForDAS.Store, given what dasWriter.Store returned: [retNil, ret, err].
StoreResult(message, wcert, werr, disableFallbackStoreDataOnChain) ==
    IF IsErrBatchToDasFailed(werr)
    THEN IF disableFallbackStoreDataOnChain
         THEN [retNil |-> TRUE, ret |-> <<>>, err |-> "fallback disabled"]
         ELSE [retNil |-> FALSE, ret |-> message, err |-> "nil"]
    ELSE IF werr # "nil"
    THEN [retNil |-> TRUE, ret |-> <<>>, err |-> werr]
    ELSE [retNil |-> FALSE, ret |-> Serialize(wcert), err |-> "nil"]

NoStore ==
    [called |-> FALSE, message |-> <<>>, timeout |-> U64FromNat(0),
     disableFallbackStoreDataOnChain |-> FALSE,
     werr |-> "nil", wcert |-> NoCert,
     retNil |-> TRUE, ret |-> <<>>, err |-> "nil"]

VARIABLES
    storeLast \* the last call of writerForDAS.Store

storeVars == <<storeLast>>

StoreIdle == storeLast = NoStore

vars == <<recoverVars, redisVars, codecVars, keysetVars, storeVars>>

(***************************************************************************)
(* The state machine                                                       *)
(***************************************************************************)
\* No recovery is running.
RecoverIdle ==
    /\ pc = "idle"
    /\ sequencerMsg = <<>>
    /\ validateSeqMsg = FALSE
    /\ preimages = NoPreimages
    /\ preimagesBefore = NoPreimages
    /\ cert = NoCert
    /\ keysetPreimage = <<>>
    /\ keyset = NoKeyset
    /\ verifyErr = "none"
    /\ payload = <<>>
    /\ fetcherCalls = <<>>
    /\ readerCalls = <<>>
    /\ ret = NoReturn

Init == RecoverIdle /\ RedisIdle /\ CodecIdle /\ KeysetIdle /\ StoreIdle

\* A caller calls RecoverPayloadFromDasBatch.
Call ==
    /\ pc = "idle"
    /\ \E msg \in MsgSet, v \in BOOLEAN, pre \in PreimagesSet :
         /\ sequencerMsg' = msg
         /\ validateSeqMsg' = v
         /\ preimages' = pre
         /\ preimagesBefore' = pre
    /\ pc' = "deserialize"
    /\ cert' = NoCert
    /\ keysetPreimage' = <<>>
    /\ keyset' = NoKeyset
    /\ verifyErr' = "none"
    /\ payload' = <<>>
    /\ fetcherCalls' = <<>>
    /\ readerCalls' = <<>>
    /\ ret' = NoReturn

Finish(r) == pc' = "done" /\ ret' = r

\* DeserializeStep with the version checked by > 2 where the code has >= 2.
DeserializeStepVersionGt2 ==
    /\ pc = "deserialize"
    /\ IF Len(sequencerMsg) < 40
       THEN Finish(Panicked) /\ UNCHANGED cert
       ELSE LET d == DeserializeDASCertFrom(
                         SubSeq(sequencerMsg, 41, Len(sequencerMsg)))
            IN IF d.err
               THEN Finish(SoftSkip) /\ UNCHANGED cert
               ELSE /\ cert' = d.c
                    /\ IF d.c.Version > 2
                       THEN Finish(SoftSkip)
                       ELSE pc' = "getKeyset" /\ UNCHANGED ret
    /\ UNCHANGED <<args, preimages, keysetPreimage, keyset, verifyErr, payload,
                   fetcherCalls, readerCalls>>

\* Lines 114-124: slice the message, parse the certificate, check its version.
DeserializeStep ==
    /\ pc = "deserialize"
    /\ IF Len(sequencerMsg) < 40
       THEN Finish(Panicked) /\ UNCHANGED cert
       ELSE LET d == DeserializeDASCertFrom(
                         SubSeq(sequencerMsg, 41, Len(sequencerMsg)))
            IN IF d.err
               THEN Finish(SoftSkip) /\ UNCHANGED cert
               ELSE /\ cert' = d.c
                    /\ IF d.c.Version >= 2
                       THEN Finish(SoftSkip)
                       ELSE pc' = "getKeyset" /\ UNCHANGED ret
    /\ UNCHANGED <<args, preimages, keysetPreimage, keyset, verifyErr, payload,
                   fetcherCalls, readerCalls>>

\* GetKeysetStep returning (nil, nil, nil) where the code returns the error.
GetKeysetStepSoftSkip ==
    /\ pc = "getKeyset"
    /\ \E resp \in FetcherResponses :
         /\ fetcherCalls' = Append(fetcherCalls, Called(cert.KeysetHash, resp))
         /\ IF resp.err
            THEN Finish(SoftSkip) /\ UNCHANGED <<keysetPreimage, preimages>>
            ELSE /\ keysetPreimage' = resp.data
                 /\ preimages' = IF preimages.nil THEN preimages
                                 ELSE [preimages EXCEPT !.map = @ \cup RecordHash(resp.data)]
                 /\ pc' = "deserializeKeyset"
                 /\ UNCHANGED ret
    /\ UNCHANGED <<args, cert, keyset, verifyErr, payload, readerCalls>>

\* Lines 154-161: fetch the keyset bytes and record them.
GetKeysetStep ==
    /\ pc = "getKeyset"
    /\ \E resp \in FetcherResponses :
         /\ fetcherCalls' = Append(fetcherCalls, Called(cert.KeysetHash, resp))
         /\ IF resp.err
            THEN Finish(HardError("keyset fetch")) /\ UNCHANGED <<keysetPreimage, preimages>>
            ELSE /\ keysetPreimage' = resp.data
                 /\ preimages' = IF preimages.nil THEN preimages
                                 ELSE [preimages EXCEPT !.map = @ \cup RecordHash(resp.data)]
                 /\ pc' = "deserializeKeyset"
                 /\ UNCHANGED ret
    /\ UNCHANGED <<args, cert, keyset, verifyErr, payload, readerCalls>>

\* DeserializeKeysetStep handing validateSeqMsg itself to DeserializeKeyset.
DeserializeKeysetStepNotNegated ==
    /\ pc = "deserializeKeyset"
    /\ LET d == DeserializeKeyset(keysetPreimage, validateSeqMsg) IN
       IF d.err
       THEN Finish(HardError("ErrSeqMsgValidation")) /\ UNCHANGED keyset
       ELSE keyset' = d.keyset /\ pc' = "verify" /\ UNCHANGED ret
    /\ UNCHANGED <<args, preimages, cert, keysetPreimage, verifyErr, payload,
                   fetcherCalls, readerCalls>>

\* Lines 163-166: deserialize the keyset.
DeserializeKeysetStep ==
    /\ pc = "deserializeKeyset"
    /\ LET d == DeserializeKeyset(keysetPreimage, ~validateSeqMsg) IN
       IF d.err
       THEN Finish(HardError("ErrSeqMsgValidation")) /\ UNCHANGED keyset
       ELSE keyset' = d.keyset /\ pc' = "verify" /\ UNCHANGED ret
    /\ UNCHANGED <<args, preimages, cert, keysetPreimage, verifyErr, payload,
                   fetcherCalls, readerCalls>>

\* VerifyStep returning the verification error where the code returns
\* (nil, nil, nil).
VerifyStepReturnsErr ==
    /\ pc = "verify"
    /\ \E blsErr \in BOOLEAN :
         /\ verifyErr' = VerifySignature(keyset, cert.SignersMask,
                                         SerializeSignableFields(cert), cert.Sig, blsErr)
         /\ IF verifyErr' # "nil"
            THEN Finish(HardError(verifyErr'))
            ELSE pc' = "checkTimeout" /\ UNCHANGED ret
    /\ UNCHANGED <<args, preimages, cert, keysetPreimage, keyset, payload,
                   fetcherCalls, readerCalls>>

\* Lines 167-171: verify the signature.
VerifyStep ==
    /\ pc = "verify"
    /\ \E blsErr \in BOOLEAN :
         /\ verifyErr' = VerifySignature(keyset, cert.SignersMask,
                                         SerializeSignableFields(cert), cert.Sig, blsErr)
         /\ IF verifyErr' # "nil"
            THEN Finish(SoftSkip)
            ELSE pc' = "checkTimeout" /\ UNCHANGED ret
    /\ UNCHANGED <<args, preimages, cert, keysetPreimage, keyset, payload,
                   fetcherCalls, readerCalls>>

\* Line 173.
MaxTimestamp(msg) == BigEndianUint64(Slice(msg, 9, 8))

\* Line 174: the certificate expires too soon.
ExpiresTooSoon(c, maxTimestamp) ==
    U64Less(c.Timeout, U64Add(maxTimestamp, MinLifetimeSecondsForDataAvailabilityCert))

\* TimeoutStep going on to the payload fetch whatever the timeout.
TimeoutStepNoCheck ==
    /\ pc = "checkTimeout"
    /\ pc' = "getByHash"
    /\ UNCHANGED <<args, preimages, cert, keysetPreimage, keyset, verifyErr,
                   payload, fetcherCalls, readerCalls, ret>>

\* Lines 173-177: check the timeout.
TimeoutStep ==
    /\ pc = "checkTimeout"
    /\ IF ExpiresTooSoon(cert, MaxTimestamp(sequencerMsg))
       THEN Finish(SoftSkip)
       ELSE pc' = "getByHash" /\ UNCHANGED ret
    /\ UNCHANGED <<args, preimages, cert, keysetPreimage, keyset, verifyErr,
                   payload, fetcherCalls, readerCalls>>

\* Lines 127-130 of getByHash: the hash the payload is looked up under.
NewHash(version, hash) == IF version = 0 THEN FlatHashToTreeHash(hash) ELSE hash

\* GetByHashStep retrying under cert.DataHash after any failed query, also
\* where the first query was already under cert.DataHash.
GetByHashStepAlwaysRetry ==
    /\ pc = "getByHash"
    /\ LET hash    == cert.DataHash
           newHash == NewHash(cert.Version, hash)
       IN \E resp \in ReaderResponses :
            /\ readerCalls' = Append(readerCalls, Called(newHash, resp))
            /\ IF resp.err
               THEN pc' = "getByHashOld" /\ UNCHANGED <<payload, ret>>
               ELSE payload' = resp.data /\ pc' = "checkHash" /\ UNCHANGED ret
    /\ UNCHANGED <<args, preimages, cert, keysetPreimage, keyset, verifyErr,
                   fetcherCalls>>

\* Lines 132-139 and 181-184: the first query of the DAS reader.
GetByHashStep ==
    /\ pc = "getByHash"
    /\ LET hash    == cert.DataHash
           newHash == NewHash(cert.Version, hash)
       IN \E resp \in ReaderResponses :
            /\ readerCalls' = Append(readerCalls, Called(newHash, resp))
            /\ IF resp.err /\ hash # newHash
               THEN pc' = "getByHashOld" /\ UNCHANGED <<payload, ret>>
               ELSE IF resp.err
               THEN Finish(HardError(resp.why)) /\ UNCHANGED payload
               ELSE payload' = resp.data /\ pc' = "checkHash" /\ UNCHANGED ret
    /\ UNCHANGED <<args, preimages, cert, keysetPreimage, keyset, verifyErr,
                   fetcherCalls>>

\* Lines 135-139 and 181-184: the second query, under the flat hash.
GetByHashOldStep ==
    /\ pc = "getByHashOld"
    /\ \E resp \in ReaderResponses :
         /\ readerCalls' = Append(readerCalls, Called(cert.DataHash, resp))
         /\ IF resp.err
            THEN Finish(HardError(resp.why)) /\ UNCHANGED payload
            ELSE payload' = resp.data /\ pc' = "checkHash" /\ UNCHANGED ret
    /\ UNCHANGED <<args, preimages, cert, keysetPreimage, keyset, verifyErr,
                   fetcherCalls>>

\* HashMismatch without the fallthrough of the version-0 case: in Go that
\* case then does nothing.
HashMismatchNoFallthrough(version, hash, preimage) ==
    version = 1 /\ TreeHash(preimage) # hash

\* Lines 141-150 of getByHash: the payload does not hash to the certificate's.
HashMismatch(version, hash, preimage) ==
    \/ version = 0 /\ Keccak256Hash(preimage) # hash
    \/ version = 1 /\ TreeHash(preimage) # hash

\* Lines 186-194: the preimages recorded for an accepted payload.
RecordPayload(c, p) ==
    IF c.Version = 0
    THEN {<<c.DataHash, p>>,
          <<Keccak256Hash(FlatHashToTreeLeaf(c.DataHash)), FlatHashToTreeLeaf(c.DataHash)>>}
    ELSE RecordHash(p)

\* CheckHashStep returning (nil, nil, nil) on a mismatch where the code
\* returns ErrHashMismatch.
CheckHashStepSoftSkip ==
    /\ pc = "checkHash"
    /\ IF HashMismatch(cert.Version, cert.DataHash, payload)
       THEN Finish(SoftSkip) /\ UNCHANGED preimages
       ELSE /\ preimages' = IF preimages.nil THEN preimages
                            ELSE [preimages EXCEPT !.map = @ \cup RecordPayload(cert, payload)]
            /\ Finish(Returned(FALSE, payload, preimages.nil, "nil"))
    /\ UNCHANGED <<args, cert, keysetPreimage, keyset, verifyErr, payload,
                   fetcherCalls, readerCalls>>

\* Lines 141-151 and 181-196: check the payload's hash, record, return.
CheckHashStep ==
    /\ pc = "checkHash"
    /\ IF HashMismatch(cert.Version, cert.DataHash, payload)
       THEN Finish(HardError("ErrHashMismatch")) /\ UNCHANGED preimages
       ELSE /\ preimages' = IF preimages.nil THEN preimages
                            ELSE [preimages EXCEPT !.map = @ \cup RecordPayload(cert, payload)]
            /\ Finish(Returned(FALSE, payload, preimages.nil, "nil"))
    /\ UNCHANGED <<args, cert, keysetPreimage, keyset, verifyErr, payload,
                   fetcherCalls, readerCalls>>

\* The caller takes the result; the next call starts afresh.
Return ==
    /\ pc = "done"
    /\ pc' = "idle"
    /\ sequencerMsg' = <<>>
    /\ validateSeqMsg' = FALSE
    /\ preimages' = NoPreimages
    /\ preimagesBefore' = NoPreimages
    /\ cert' = NoCert
    /\ keysetPreimage' = <<>>
    /\ keyset' = NoKeyset
    /\ verifyErr' = "none"
    /\ payload' = <<>>
    /\ fetcherCalls' = <<>>
    /\ readerCalls' = <<>>
    /\ ret' = NoReturn

\* The cache and the codec stand still while a recovery runs.
Next ==
    \/ Call /\ UNCHANGED <<redisVars, codecVars, keysetVars, storeVars>>
    \/ DeserializeStep /\ UNCHANGED <<redisVars, codecVars, keysetVars, storeVars>>
    \/ GetKeysetStep /\ UNCHANGED <<redisVars, codecVars, keysetVars, storeVars>>
    \/ DeserializeKeysetStep /\ UNCHANGED <<redisVars, codecVars, keysetVars, storeVars>>
    \/ VerifyStep /\ UNCHANGED <<redisVars, codecVars, keysetVars, storeVars>>
    \/ TimeoutStep /\ UNCHANGED <<redisVars, codecVars, keysetVars, storeVars>>
    \/ GetByHashStep /\ UNCHANGED <<redisVars, codecVars, keysetVars, storeVars>>
    \/ GetByHashOldStep /\ UNCHANGED <<redisVars, codecVars, keysetVars, storeVars>>
    \/ CheckHashStep /\ UNCHANGED <<redisVars, codecVars, keysetVars, storeVars>>
    \/ Return /\ UNCHANGED <<redisVars, codecVars, keysetVars, storeVars>>

Spec == Init /\ [][Next]_vars

(***************************************************************************)
(* Properties                                                              *)
(***************************************************************************)
\* The call returned a payload and no error: the certificate was accepted.
Accepted == pc = "done" /\ ~ret.panic /\ ~ret.payloadNil /\ ret.err = "nil"

Last(s) == s[Len(s)]

\* The number of keys of the keyset used.
NumKeys == Len(keyset.PubKeys)

\* The members of the keyset used whose bit in the signers mask is set.
Signers == {i \in 0..(NumKeys - 1) : U64Bit(cert.SignersMask, i)}

NonSigners == NumKeys - Cardinality(Signers)

\* max_timestamp + MIN_LIFETIME exceeds cert.Timeout, as integers.
TooSoonAsIntegers ==
    LET mt == MaxTimestamp(sequencerMsg) IN
    \/ U64AddOverflows(mt, MinLifetimeSecondsForDataAvailabilityCert)
    \/ U64Less(cert.Timeout, U64Add(mt, MinLifetimeSecondsForDataAvailabilityCert))

\* C1: whenever RecoverPayloadFromDasBatch returns a payload and no error,
\* the payload hashes to cert.DataHash under the version's scheme: its
\* Keccak-256 for version 0, its tree hash for version 1.
C1_AcceptedPayloadHashes ==
    Accepted =>
        /\ cert.Version \in {0, 1}
        /\ cert.Version = 0 => Keccak256Hash(ret.payload) = cert.DataHash
        /\ cert.Version = 1 => TreeHash(ret.payload) = cert.DataHash

\* A version-0 payload accepted from the legacy fallback query.
C1_Witness ==
    /\ Accepted
    /\ cert.Version = 0
    /\ Len(readerCalls) = 2
    /\ readerCalls[1].err
    /\ readerCalls[2].hash = cert.DataHash

\* C2: every accepted certificate has cert.Timeout >= max_timestamp + 604800
\* as integers, also where the 64-bit sum wraps around.
C2_TimeoutCoversMinLifetime == Accepted => ~TooSoonAsIntegers

\* C3: every accepted certificate's signers mask has no bit set at an index
\* >= N, the number of keys of the keyset.
C3_NoMaskBitBeyondN ==
    Accepted => \A i \in NumKeys..63 : ~U64Bit(cert.SignersMask, i)

\* C4, as amended: VerifySignature answers "not enough signers" exactly when
\* the members whose mask bit is clear number assumed_honest or more,
\* whatever the BLS library would answer; every accepted certificate has
\* fewer non-signers than assumed_honest; and under a keyset with
\* assumed_honest <= N a mask with every member a non-signer is not accepted.
C4_NotEnoughSigners ==
    /\ verifyErr # "none" =>
          ((verifyErr = "not enough signers")
             <=> ~U64Less(U64FromNat(NonSigners), keyset.AssumedHonest))
    /\ Accepted => U64Less(U64FromNat(NonSigners), keyset.AssumedHonest)
    /\ (Accepted /\ ~U64Less(U64FromNat(NumKeys), keyset.AssumedHonest))
          => Signers # {}

\* A mask with every member a non-signer, refused for want of signers.
C4_Witness ==
    /\ pc = "done"
    /\ verifyErr = "not enough signers"
    /\ NumKeys > 0
    /\ Signers = {}
    /\ ret = SoftSkip

\* C4 as stated: a mask with all members as non-signers is never accepted.
C4_AllNonSignersNeverAccepted == Accepted => Signers # {}

\* C5: for every accepted certificate the keyset bytes used to verify the
\* signature have tree hash cert.KeysetHash.
C5_KeysetHashesToCert == Accepted => TreeHash(keysetPreimage) = cert.KeysetHash

\* The bytes after the 40-byte header hold no certificate of a known version:
\* nothing, a first byte without the DAS header bit, fewer bytes than a
\* certificate has, a signature that is no curve point, or a version >= 2.
NoKnownCert(msg) ==
    /\ Len(msg) >= 40
    /\ \/ Len(msg) = 40
       \/ msg[41] < 128
       \/ LET tree == (msg[41] \div 8) % 2 = 1
              size == IF tree THEN 178 ELSE 177
          IN \/ Len(msg) < 40 + size
             \/ msg[40 + size - 95] = 255
             \/ tree /\ msg[40 + 74] >= 2

\* C6: if the certificate at sequencerMsg[40:] fails to deserialize or has
\* version >= 2, the call returns (nil, nil, nil) and calls neither the
\* keyset fetcher nor the DAS reader.
C6_UnreadableSoftSkips ==
    (pc # "idle" /\ NoKnownCert(sequencerMsg)) =>
        /\ pc \in {"deserialize", "done"}
        /\ pc = "done" => ret = SoftSkip
        /\ fetcherCalls = <<>>
        /\ readerCalls = <<>>

\* A certificate cut short, soft-skipped.
C6_Witness ==
    /\ pc = "done"
    /\ Len(sequencerMsg) > 41
    /\ sequencerMsg[41] >= 128
    /\ Len(sequencerMsg) < 40 + 177
    /\ ret = SoftSkip

\* C7: if the signature verification fails (not enough signers, a BLS
\* library error, a false result), the call returns (nil, nil, nil) and the
\* DAS reader is never asked for the payload.
C7_BadSignatureSoftSkips ==
    /\ verifyErr \in {"not enough signers", "bls error", "bad signature"} =>
          pc = "done" /\ ret = SoftSkip /\ readerCalls = <<>>
    /\ readerCalls # <<>> => verifyErr = "nil"

\* A certificate with enough signers whose signature does not verify.
C7_Witness == pc = "done" /\ verifyErr = "bad signature" /\ ret = SoftSkip

\* C8: a correctly signed certificate with cert.Timeout < max_timestamp +
\* MIN_LIFETIME is soft-skipped without a payload fetch, and one with
\* cert.Timeout = max_timestamp + MIN_LIFETIME passes the check.
C8_ExpiresTooSoonSoftSkips ==
    (verifyErr = "nil" /\ pc # "checkTimeout") =>
        IF TooSoonAsIntegers
        THEN pc = "done" /\ ret = SoftSkip /\ readerCalls = <<>>
        ELSE pc = "done" => readerCalls # <<>>

\* C9: if the fetched payload does not hash to cert.DataHash under the
\* version's scheme, the call returns ErrHashMismatch with a nil payload and
\* nil preimages.
C9_MismatchIsHardError ==
    (/\ pc = "done"
     /\ readerCalls # <<>>
     /\ ~Last(readerCalls).err
     /\ \/ cert.Version = 0 /\ Keccak256Hash(Last(readerCalls).data) # cert.DataHash
        \/ cert.Version = 1 /\ TreeHash(Last(readerCalls).data) # cert.DataHash)
    => ret = HardError("ErrHashMismatch")

\* The reader answered with bytes that do not hash to a version-1
\* certificate's data hash.
C9_Witness ==
    /\ pc = "done"
    /\ cert.Version = 1
    /\ readerCalls # <<>>
    /\ ~Last(readerCalls).err
    /\ TreeHash(Last(readerCalls).data) # cert.DataHash
    /\ ret.err = "ErrHashMismatch"

\* C10: a failure to fetch the keyset, or the payload of a certificate that
\* passed the signature and timeout checks, returns an error and a nil
\* payload, never (nil, nil, nil).
C10_FetchFailureIsHardError ==
    (/\ pc = "done"
     /\ \/ fetcherCalls # <<>> /\ Last(fetcherCalls).err
        \/ readerCalls # <<>> /\ Last(readerCalls).err)
    => ret.err # "nil" /\ ret.payloadNil /\ ~ret.panic

\* Both payload queries of a version-0 certificate failed.
C10_Witness ==
    /\ pc = "done"
    /\ verifyErr = "nil"
    /\ Len(readerCalls) = 2
    /\ Last(readerCalls).err
    /\ ret.err # "nil"

\* C11: a version-1 certificate's payload is asked of the DAS reader exactly
\* once, under cert.DataHash; a version-0 certificate's first under
\* flat_to_tree(cert.DataHash) and, only if that query failed, once more
\* under cert.DataHash; if both fail the error of the second is returned;
\* no recovery makes more than two payload queries.
C11_PayloadLookup ==
    /\ Len(readerCalls) <= 2
    /\ (readerCalls # <<>> /\ cert.Version = 1) =>
          Len(readerCalls) = 1 /\ readerCalls[1].hash = cert.DataHash
    /\ (readerCalls # <<>> /\ cert.Version = 0) =>
          /\ readerCalls[1].hash = FlatHashToTreeHash(cert.DataHash)
          /\ Len(readerCalls) = 2 =>
                readerCalls[1].err /\ readerCalls[2].hash = cert.DataHash
          /\ (pc = "done" /\ readerCalls[1].err) => Len(readerCalls) = 2
    /\ (pc = "done" /\ readerCalls # <<>> /\ ~readerCalls[1].err) =>
          Len(readerCalls) = 1
    /\ (pc = "done" /\ readerCalls # <<>> /\ Last(readerCalls).err) =>
          ret = HardError(Last(readerCalls).why)

\* Both queries of a version-0 certificate failed, with different errors,
\* and the second error was returned.
C11_Witness ==
    /\ pc = "done"
    /\ cert.Version = 0
    /\ Len(readerCalls) = 2
    /\ readerCalls[1].err /\ readerCalls[2].err
    /\ readerCalls[1].why # readerCalls[2].why
    /\ ret.err = readerCalls[2].why

\* C12: whenever the call returns (nil, nil, nil), the caller's preimages
\* map holds exactly the entries it held before the call.
C12_SoftSkipLeavesPreimages ==
    (pc = "done" /\ ret = SoftSkip) => preimages = preimagesBefore

\* The keyset bytes fetched deserialize, as this call deserializes them.
KeysetReadable == ~DeserializeKeyset(keysetPreimage, ~validateSeqMsg).err

\* C23: the steps of a recovery run in one order and the first that fails
\* decides the outcome: the keyset is fetched only for a certificate of a
\* known version, the signature is verified only over a keyset that was
\* fetched and deserialized, the DAS reader is asked only after the signature
\* verified and the timeout check passed; a failed keyset fetch or keyset
\* deserialization is a hard error whatever the signature and the timeout.
C23_FirstFailingStepDecides ==
    /\ fetcherCalls # <<>> =>
          /\ Len(fetcherCalls) = 1
          /\ ~NoKnownCert(sequencerMsg)
          /\ cert.Version < 2
    /\ (fetcherCalls # <<>> /\ Last(fetcherCalls).err) =>
          /\ pc = "done"
          /\ ret = HardError("keyset fetch")
          /\ verifyErr = "none"
          /\ readerCalls = <<>>
    /\ (fetcherCalls # <<>> /\ ~Last(fetcherCalls).err /\ ~KeysetReadable
          /\ pc # "deserializeKeyset") =>
          /\ pc = "done"
          /\ ret = HardError("ErrSeqMsgValidation")
          /\ verifyErr = "none"
          /\ readerCalls = <<>>
    /\ verifyErr # "none" =>
          /\ fetcherCalls # <<>>
          /\ ~Last(fetcherCalls).err
          /\ KeysetReadable
    /\ (verifyErr \notin {"none", "nil"}) =>
          pc = "done" /\ ret = SoftSkip /\ readerCalls = <<>>
    /\ (verifyErr = "nil" /\ pc # "checkTimeout"
          /\ ExpiresTooSoon(cert, MaxTimestamp(sequencerMsg))) =>
          pc = "done" /\ ret = SoftSkip /\ readerCalls = <<>>
    /\ readerCalls # <<>> =>
          /\ verifyErr = "nil"
          /\ ~ExpiresTooSoon(cert, MaxTimestamp(sequencerMsg))
    /\ (pc = "done" /\ ret.err = "ErrHashMismatch") =>
          readerCalls # <<>> /\ ~Last(readerCalls).err

\* The keyset fetch failed for a certificate that expires too soon and
\* carries a signature over another message: a hard error.
C23_Witness ==
    /\ pc = "done"
    /\ fetcherCalls # <<>>
    /\ Last(fetcherCalls).err
    /\ cert.Sig = BlsSign({1, 2}, <<0>>)
    /\ ExpiresTooSoon(cert, MaxTimestamp(sequencerMsg))
    /\ ret = HardError("keyset fetch")

\* The call is past the deserialization of the keyset bytes it fetched.
PastDeserializeKeyset ==
    /\ fetcherCalls # <<>>
    /\ ~Last(fetcherCalls).err
    /\ pc # "deserializeKeyset"

\* C24, as amended: the public keys are validated during deserialization
\* exactly when validateSeqMsg is true (DeserializeKeyset is handed
\* assumeKeysetValid = !validateSeqMsg): a keyset with an unproven key is
\* refused when validateSeqMsg is true and used when it is false; a keyset
\* that fails to deserialize is a hard error, ErrSeqMsgValidation, never a
\* soft-skip.
C24_KeysValidatedWhenValidating ==
    /\ (PastDeserializeKeyset /\ keysetPreimage = UnprovenKeysetBytes) =>
          IF validateSeqMsg
          THEN pc = "done" /\ ret = HardError("ErrSeqMsgValidation")
          ELSE keyset = MkKeyset(2, <<1, 2>>) /\ ret.err # "ErrSeqMsgValidation"
    /\ (PastDeserializeKeyset /\ keysetPreimage = TruncatedKeysetBytes) =>
          pc = "done" /\ ret = HardError("ErrSeqMsgValidation")
    /\ (PastDeserializeKeyset /\ pc = "done" /\ ret = SoftSkip) =>
          verifyErr # "none"

\* A keyset with an unproven key refused while validating.
C24_Witness ==
    /\ pc = "done"
    /\ validateSeqMsg
    /\ keysetPreimage = UnprovenKeysetBytes
    /\ ret = HardError("ErrSeqMsgValidation")

\* C24 as stated: the keys are validated exactly when validateSeqMsg is
\* false, so a keyset with an unproven key is refused exactly then.
C24_KeysValidatedWhenNotValidating ==
    (PastDeserializeKeyset /\ keysetPreimage = UnprovenKeysetBytes) =>
        IF ~validateSeqMsg
        THEN pc = "done" /\ ret = HardError("ErrSeqMsgValidation")
        ELSE ret.err # "ErrSeqMsgValidation"

\* The shortest message that holds a certificate: 40 bytes, then 177.
MinCertMsgLen == 40 + 1 + 2 * HashLen + 8 + 8 + SigLen

\* C27: for a sequencer message of any length the call ends with a payload,
\* a soft-skip or an error, never with an out-of-range access; a message too
\* short to hold a certificate is a soft-skip.
C27_AnyLengthTerminates ==
    pc = "done" =>
        /\ ~ret.panic
        /\ Len(sequencerMsg) < MinCertMsgLen => ret = SoftSkip

\* C28: under a keyset with assumed_honest = 0 VerifySignature answers "not
\* enough signers" for every signers mask and signature, and no certificate
\* is accepted: an accepted certificate's keyset has assumed_honest >= 1.
C28_ZeroHonestAcceptsNothing ==
    /\ (verifyErr # "none" /\ keyset.AssumedHonest = U64FromNat(0)) =>
          verifyErr = "not enough signers" /\ pc = "done" /\ ret = SoftSkip
    /\ Accepted => U64Less(U64FromNat(0), keyset.AssumedHonest)

\* Every member of a keyset with assumed_honest = 0 signed, the signature
\* is theirs, and the certificate is refused.
C28_Witness ==
    /\ pc = "done"
    /\ keyset.AssumedHonest = U64FromNat(0)
    /\ NumKeys = 2
    /\ NonSigners = 0
    /\ cert.Sig = BlsSign({1, 2}, SerializeSignableFields(cert))
    /\ verifyErr = "not enough signers"
    /\ ret = SoftSkip

(***************************************************************************)
(* RedisStorageService: the state machine.  Each call is one step; the     *)
(* base storage service and the Redis server answer as they please.        *)
(***************************************************************************)
\* What baseStorageService.GetByHash may do: fail, or return any value.
BaseResponses ==
    {Response(TRUE, <<>>)} \cup {Response(FALSE, v) : v \in RedisValues}

\* Lines 276-291.
NewRedisStorageService ==
    /\ ~rs.constructed
    /\ \E url \in UrlSet, keyConfig \in KeyConfigSet :
         LET signingKey == HexToHash(keyConfig)
             call == [NoCall EXCEPT !.op = "NewRedisStorageService",
                                    !.keyConfig = keyConfig]
         IN IF RedisClientFromURLErr(url)
            THEN /\ rlast' = [call EXCEPT !.err = "redis url"]
                 /\ UNCHANGED rs
            ELSE IF signingKey = Zeros(HashLen)
            THEN /\ rlast' = [call EXCEPT !.err = "not 32 bytes of hex"]
                 /\ UNCHANGED rs
            ELSE /\ rs' = [constructed |-> TRUE, closed |-> FALSE,
                           signingKey |-> signingKey,
                           Expiration |-> DefaultExpiration]
                 /\ rlast' = [call EXCEPT !.retNil = FALSE]
    /\ UNCHANGED <<redis, acked, baseGot>>

\* Put writing the Redis entry before it calls the base.
PutCacheFirst ==
    /\ rs.constructed /\ ~rs.closed
    /\ \E value \in RedisValues, baseErr \in BOOLEAN, setErr \in BOOLEAN :
         LET call == [NoCall EXCEPT !.op = "Put", !.value = value,
                                    !.baseCalled = TRUE, !.baseErr = baseErr,
                                    !.setCalled = TRUE, !.setErr = setErr]
         IN /\ redis' = IF setErr THEN redis
                        ELSE [redis EXCEPT ![TreeHash(value)] =
                                 Entry(signMessage(rs.signingKey, value),
                                       rs.Expiration, "Put")]
            /\ acked' = IF baseErr THEN acked ELSE acked \cup {value}
            /\ rlast' = [call EXCEPT !.err = IF baseErr THEN "base put"
                                             ELSE IF setErr THEN "redis set"
                                             ELSE "nil"]
    /\ UNCHANGED <<rs, baseGot>>

\* Lines 346-359.  The timeout is handed to the base and used nowhere else.
Put ==
    /\ rs.constructed /\ ~rs.closed
    /\ \E value \in RedisValues, baseErr \in BOOLEAN :
         LET call == [NoCall EXCEPT !.op = "Put", !.value = value,
                                    !.baseCalled = TRUE, !.baseErr = baseErr]
         IN IF baseErr
            THEN /\ rlast' = [call EXCEPT !.err = "base put"]
                 /\ UNCHANGED <<redis, acked>>
            ELSE \E setErr \in BOOLEAN :
                 /\ acked' = acked \cup {value}
                 /\ redis' = IF setErr THEN redis
                             ELSE [redis EXCEPT ![TreeHash(value)] =
                                      Entry(signMessage(rs.signingKey, value),
                                            rs.Expiration, "Put")]
                 /\ rlast' = [call EXCEPT !.setCalled = TRUE, !.setErr = setErr,
                                          !.err = IF setErr THEN "redis set"
                                                  ELSE "nil"]
    /\ UNCHANGED <<rs, baseGot>>

\* Lines 308-319: getVerifiedData, [err, message]; getErr: the GET failed.
getVerifiedData(key, getErr) ==
    IF getErr \/ ~redis[key].present
    THEN [err |-> "redis get", message |-> <<>>]
    ELSE verifyMessageSignature(rs.signingKey, redis[key].data)

\* Lines 327-344.
GetByHash ==
    /\ rs.constructed /\ ~rs.closed
    /\ \E key \in RedisKeys, getErr \in BOOLEAN :
         LET got  == getVerifiedData(key, getErr)
             call == [NoCall EXCEPT !.op = "GetByHash", !.key = key,
                                    !.entry = IF getErr THEN <<>>
                                              ELSE redis[key].data,
                                    !.cacheErr = got.err]
         IN IF got.err = "nil"
            THEN /\ rlast' = [call EXCEPT !.hit = TRUE, !.retNil = FALSE,
                                          !.ret = got.message]
                 /\ UNCHANGED <<redis, baseGot>>
            ELSE \E baseResp \in BaseResponses :
                 LET miss == [call EXCEPT !.baseCalled = TRUE,
                                          !.baseErr = baseResp.err,
                                          !.baseData = baseResp.data]
                 IN IF baseResp.err
                    THEN /\ rlast' = [miss EXCEPT !.err = "base get"]
                         /\ UNCHANGED <<redis, baseGot>>
                    ELSE \E setErr \in BOOLEAN :
                         /\ baseGot' = baseGot \cup {<<key, baseResp.data>>}
                         /\ IF setErr
                            THEN /\ rlast' = [miss EXCEPT !.setCalled = TRUE,
                                                          !.setErr = TRUE,
                                                          !.err = "redis set"]
                                 /\ UNCHANGED redis
                            ELSE /\ redis' = [redis EXCEPT ![key] =
                                                 Entry(signMessage(rs.signingKey,
                                                                   baseResp.data),
                                                       rs.Expiration, "GetByHash")]
                                 /\ rlast' = [miss EXCEPT !.setCalled = TRUE,
                                                          !.retNil = FALSE,
                                                          !.ret = baseResp.data]
    /\ UNCHANGED <<rs, acked>>

\* A party without the signing key writes a Redis entry that does not
\* expire: bytes of its own making, or the bytes some entry holds now, under
\* any key.
Tamper ==
    /\ rs.constructed /\ ~rs.closed
    /\ \E key \in RedisKeys,
          data \in TamperData \cup {redis[k].data : k \in {j \in RedisKeys : redis[j].present}} :
         redis' = [redis EXCEPT ![key] = Entry(data, 0, "tamper")]
    /\ rlast' = [NoCall EXCEPT !.op = "Tamper"]
    /\ UNCHANGED <<rs, acked, baseGot>>

\* The time to live of an entry runs out.
Expire ==
    /\ ~rs.closed
    /\ \E key \in RedisKeys :
         /\ redis[key].present
         /\ redis[key].ttl # 0
         /\ redis' = [redis EXCEPT ![key] = NoEntry]
    /\ rlast' = [NoCall EXCEPT !.op = "Expire"]
    /\ UNCHANGED <<rs, acked, baseGot>>

\* Lines 365-371.  A service whose client was closed is used no more.
Close ==
    /\ rs.constructed /\ ~rs.closed
    /\ \E clientErr \in BOOLEAN, baseErr \in BOOLEAN :
         LET call == [NoCall EXCEPT !.op = "Close"] IN
         IF clientErr
         THEN /\ rlast' = [call EXCEPT !.calls = <<"client.Close">>,
                                       !.err = "client close"]
              /\ UNCHANGED rs
         ELSE /\ rlast' = [call EXCEPT !.calls = <<"client.Close", "base.Close">>,
                                       !.baseCalled = TRUE, !.baseErr = baseErr,
                                       !.err = IF baseErr THEN "base close"
                                               ELSE "nil"]
              /\ rs' = [rs EXCEPT !.closed = TRUE]
    /\ UNCHANGED <<redis, acked, baseGot>>

\* Lines 381-387.
HealthCheck ==
    /\ rs.constructed /\ ~rs.closed
    /\ \E pingErr \in BOOLEAN, baseErr \in BOOLEAN :
         LET call == [NoCall EXCEPT !.op = "HealthCheck"] IN
         IF pingErr
         THEN rlast' = [call EXCEPT !.calls = <<"client.Ping">>, !.err = "ping"]
         ELSE rlast' = [call EXCEPT !.calls = <<"client.Ping", "base.HealthCheck">>,
                                    !.baseCalled = TRUE, !.baseErr = baseErr,
                                    !.err = IF baseErr THEN "base health"
                                            ELSE "nil"]
    /\ UNCHANGED <<rs, redis, acked, baseGot>>

\* The recovery and the codec stand still while the cache is used.
RedisNext ==
    \/ NewRedisStorageService /\ UNCHANGED <<recoverVars, codecVars, keysetVars, storeVars>>
    \/ Put /\ UNCHANGED <<recoverVars, codecVars, keysetVars, storeVars>>
    \/ GetByHash /\ UNCHANGED <<recoverVars, codecVars, keysetVars, storeVars>>
    \/ Close /\ UNCHANGED <<recoverVars, codecVars, keysetVars, storeVars>>
    \/ HealthCheck /\ UNCHANGED <<recoverVars, codecVars, keysetVars, storeVars>>
    \/ Tamper /\ UNCHANGED <<recoverVars, codecVars, keysetVars, storeVars>>
    \/ Expire /\ UNCHANGED <<recoverVars, codecVars, keysetVars, storeVars>>

RedisSpec == Init /\ [][RedisNext]_vars

\* The cache with no writer of Redis but the service.
RedisOwnNext ==
    \/ NewRedisStorageService /\ UNCHANGED <<recoverVars, codecVars, keysetVars, storeVars>>
    \/ Put /\ UNCHANGED <<recoverVars, codecVars, keysetVars, storeVars>>
    \/ GetByHash /\ UNCHANGED <<recoverVars, codecVars, keysetVars, storeVars>>
    \/ Close /\ UNCHANGED <<recoverVars, codecVars, keysetVars, storeVars>>
    \/ HealthCheck /\ UNCHANGED <<recoverVars, codecVars, keysetVars, storeVars>>
    \/ Expire /\ UNCHANGED <<recoverVars, codecVars, keysetVars, storeVars>>

RedisOwnSpec == Init /\ [][RedisOwnNext]_vars

(***************************************************************************)
(* Properties of RedisStorageService                                       *)
(***************************************************************************)
\* The value part and the tag part of the bytes of a Redis entry.
ValueOf(data) == SubSeq(data, 1, Len(data) - HashLen)

TagOf(data) == SubSeq(data, Len(data) - HashLen + 1, Len(data))

\* The Redis entry the service writes for a value.
SignedEntry(value, by) ==
    Entry(value \o Hmac(rs.signingKey, value), rs.Expiration, by)

\* C13: Put returns success whenever base.Put succeeds, also when the Redis
\* SET that follows fails.
C13_PutSucceedsWhenBaseDoes ==
    (rlast.op = "Put" /\ ~rlast.baseErr) => rlast.err = "nil"

\* C14: Put calls base.Put before it touches Redis; if base.Put fails, Put
\* returns that error without a Redis SET and every Redis entry is as it
\* was; no entry written by Put holds a value the base did not acknowledge.
C14_BasePutFirst ==
    /\ [](/\ (rlast.op = "Put" /\ rlast.baseErr) =>
                 rlast.err = "base put" /\ ~rlast.setCalled
          /\ \A h \in RedisKeys :
                 (redis[h].present /\ redis[h].by = "Put") =>
                     ValueOf(redis[h].data) \in acked)
    /\ [][(rlast'.op = "Put" /\ rlast'.baseErr) => redis' = redis]_vars

\* A Put the base refused, and no entry under the value's key.
C14_Witness ==
    /\ rlast.op = "Put"
    /\ rlast.baseErr
    /\ rlast.err = "base put"
    /\ rlast.value \notin acked
    /\ ~redis[TreeHash(rlast.value)].present

\* C15: when the Redis entry for h is missing, too short or carries a tag
\* that does not verify, GetByHash(h) asks the base and returns the base's
\* value or the base's error, and on base success the Redis entry for h is
\* the value with its correct tag and the configured expiration.
C15_MissFallsThroughToBase ==
    (rlast.op = "GetByHash" /\ rlast.cacheErr # "nil") =>
        /\ rlast.baseCalled
        /\ rlast.baseErr => rlast.retNil /\ rlast.err = "base get"
        /\ ~rlast.baseErr =>
              /\ ~rlast.retNil
              /\ rlast.ret = rlast.baseData
              /\ rlast.err = "nil"
              /\ redis[rlast.key] = SignedEntry(rlast.baseData, "GetByHash")

\* C16: when GetByHash misses the cache and the base succeeds, the base's
\* value is returned even if the Redis SET that refreshes the cache fails.
C16_RefreshFailureIgnored ==
    (rlast.op = "GetByHash" /\ rlast.baseCalled /\ ~rlast.baseErr /\ rlast.setErr) =>
        ~rlast.retNil /\ rlast.ret = rlast.baseData /\ rlast.err = "nil"

\* C17: a value is returned without the base being asked only if the entry
\* read is at least 32 bytes long and its last 32 bytes are the HMAC of the
\* bytes before them under the signing key; the value returned is exactly
\* those bytes.
C17_CacheHitsAreAuthentic ==
    (rlast.op = "GetByHash" /\ ~rlast.baseCalled) =>
        /\ rlast.hit
        /\ Len(rlast.entry) >= HashLen
        /\ TagOf(rlast.entry) = Hmac(rs.signingKey, ValueOf(rlast.entry))
        /\ ~rlast.retNil
        /\ rlast.ret = ValueOf(rlast.entry)
        /\ rlast.err = "nil"

\* A hit on an entry the tamperer wrote: authentic bytes it copied.
C17_Witness ==
    /\ rlast.op = "GetByHash"
    /\ rlast.hit
    /\ redis[rlast.key].by = "tamper"
    /\ rlast.ret \in RedisValues

\* C18: every Redis entry the service wrote under key h holds a value whose
\* tree hash is h, and every value GetByHash(h) returns from the cache has
\* tree hash h.
C18_CacheCoherence ==
    /\ \A h \in RedisKeys :
           (redis[h].present /\ redis[h].by \in {"Put", "GetByHash"}) =>
               TreeHash(ValueOf(redis[h].data)) = h
    /\ (rlast.op = "GetByHash" /\ rlast.hit) => TreeHash(rlast.ret) = rlast.key

\* Exactly 32 bytes of hex: 64 characters, each a hex digit.
Is32BytesOfHex(str) ==
    Len(str) = 2 * HashLen /\ \A i \in 1..Len(str) : HexDigit(str[i]) >= 0

\* C19: NewRedisStorageService returns an error and no service unless the
\* key config is exactly 32 bytes of hex.
C19_KeyConfigMustBe32BytesOfHex ==
    (rlast.op = "NewRedisStorageService" /\ ~Is32BytesOfHex(rlast.keyConfig)) =>
        rlast.err # "nil" /\ rlast.retNil /\ ~rs.constructed

\* C26: Close closes the Redis client before it calls base.Close and the
\* base is closed on every Close call; HealthCheck asks the base for its
\* health only after a successful Redis ping.
C26_CloseAlwaysClosesBase ==
    /\ rlast.op = "Close" => rlast.calls = <<"client.Close", "base.Close">>
    /\ rlast.op = "HealthCheck" =>
          /\ rlast.calls[1] = "client.Ping"
          /\ rlast.baseCalled <=> rlast.calls = <<"client.Ping", "base.HealthCheck">>
          /\ rlast.err = "ping" => ~rlast.baseCalled

\* C29: with Redis written by this service alone, a value GetByHash(h)
\* returns is one the base returned from GetByHash(h) in this or an earlier
\* call, or a value with tree hash h that the base acknowledged a Put of.
C29_CacheTransparency ==
    (rlast.op = "GetByHash" /\ ~rlast.retNil) =>
        \/ <<rlast.key, rlast.ret>> \in baseGot
        \/ rlast.ret \in acked /\ TreeHash(rlast.ret) = rlast.key

\* A hit on an entry Put wrote, of a value the base never returned from a
\* GetByHash of that key; and a hit on an entry a GetByHash wrote, of a value
\* that was never Put.
C29_Witness ==
    /\ rlast.op = "GetByHash" /\ rlast.hit /\ ~rlast.retNil
    /\ \/ /\ redis[rlast.key].by = "Put"
          /\ <<rlast.key, rlast.ret>> \notin baseGot
       \/ /\ redis[rlast.key].by = "GetByHash"
          /\ rlast.ret \notin acked
          /\ TreeHash(rlast.ret) # rlast.key

(***************************************************************************)
(* The certificate codec: a certificate is serialized, and the bytes are   *)
(* deserialized.                                                           *)
(***************************************************************************)
CodecInit ==
    /\ RecoverIdle
    /\ RedisIdle
    /\ KeysetIdle
    /\ StoreIdle
    /\ codecPc = "start"
    /\ codecCert \in CodecCerts
    /\ codecBytes = <<>>
    /\ codecSignable = <<>>
    /\ codecOut = NoCodecOut

\* Serialize(codecCert), and the bytes codecCert's signers sign
SerializeCert ==
    /\ codecPc = "start"
    /\ codecBytes' = Serialize(codecCert)
    /\ codecSignable' = SerializeSignableFields(codecCert)
    /\ codecPc' = "serialized"
    /\ UNCHANGED <<codecCert, codecOut>>

\* DeserializeDASCertFrom(bytes.NewReader(codecBytes))
DeserializeCert ==
    /\ codecPc = "serialized"
    /\ codecOut' = DeserializeDASCertFrom(codecBytes)
    /\ codecPc' = "deserialized"
    /\ UNCHANGED <<codecCert, codecBytes, codecSignable>>

CodecNext ==
    \/ SerializeCert /\ UNCHANGED <<recoverVars, redisVars, keysetVars, storeVars>>
    \/ DeserializeCert /\ UNCHANGED <<recoverVars, redisVars, keysetVars, storeVars>>

CodecSpec == CodecInit /\ [][CodecNext]_vars

\* C20: for every well-formed certificate c, DeserializeDASCertFrom of
\* Serialize(c) succeeds and yields c in every field; the first byte of
\* Serialize(c) carries the DAS header flag, and the TREE flag exactly when
\* c.Version is not 0; the version byte is there exactly when c.Version is
\* not 0.
C20_CertRoundTrip ==
    /\ codecPc = "deserialized" => ~codecOut.err /\ codecOut.c = codecCert
    /\ codecPc \in {"serialized", "deserialized"} =>
          /\ IsDASMessageHeaderByte(codecBytes[1])
          /\ IsTreeDASMessageHeaderByte(codecBytes[1]) <=> codecCert.Version # 0
          /\ Len(codecBytes) =
                1 + 2 * HashLen + 8 + (IF codecCert.Version # 0 THEN 1 ELSE 0)
                  + 8 + SigLen
          /\ codecCert.Version # 0 =>
                codecBytes[2 + 2 * HashLen + 8] = codecCert.Version
          /\ Slice(codecBytes, Len(codecBytes) - SigLen - 7, 8)
                = BigEndianPutUint64(codecCert.SignersMask)

\* A certificate of version 255 with every mask bit set, back from its bytes.
C20_Witness ==
    /\ codecPc = "deserialized"
    /\ codecCert.Version = 255
    /\ codecCert.SignersMask = U64MaxMinus(0)
    /\ codecCert.Sig # Zeros(SigLen)
    /\ codecOut.c = codecCert

\* C25: the signable bytes of a certificate are its data hash, its timeout
\* in big-endian, and its version byte when the version is not 0; every
\* certificate with the same three fields has the same signable bytes,
\* whatever its keyset hash and signers mask; Serialize puts these bytes
\* between the keyset hash and the signers mask.
C25_SignableFields ==
    codecPc \in {"serialized", "deserialized"} =>
        LET n == Len(codecSignable) IN
        /\ n = HashLen + 8 + (IF codecCert.Version # 0 THEN 1 ELSE 0)
        /\ Slice(codecSignable, 1, HashLen) = codecCert.DataHash
        /\ BigEndianUint64(Slice(codecSignable, HashLen + 1, 8)) = codecCert.Timeout
        /\ codecCert.Version # 0 => codecSignable[n] = codecCert.Version
        /\ \A c \in CodecCerts :
              (/\ c.DataHash = codecCert.DataHash
               /\ c.Timeout = codecCert.Timeout
               /\ c.Version = codecCert.Version) =>
                  SerializeSignableFields(c) = codecSignable
        /\ Slice(codecBytes, 2, HashLen) = codecCert.KeysetHash
        /\ Slice(codecBytes, 2 + HashLen, n) = codecSignable
        /\ Slice(codecBytes, 2 + HashLen + n, 8)
              = BigEndianPutUint64(codecCert.SignersMask)

\* A certificate of version 2 with a keyset hash and a signers mask that
\* are not zero, serialized.
C25_Witness ==
    /\ codecPc = "serialized"
    /\ codecCert.Version = 2
    /\ codecCert.KeysetHash # Zeros(HashLen)
    /\ codecCert.SignersMask = U64FromNat(7)
    /\ Len(codecSignable) = HashLen + 9

(***************************************************************************)
(* The keyset codec: a keyset is serialized, the bytes may come to declare *)
(* more keys than the limit, and the bytes are deserialized.               *)
(***************************************************************************)
KeysetInit ==
    /\ RecoverIdle
    /\ RedisIdle
    /\ CodecIdle
    /\ StoreIdle
    /\ ksPc = "start"
    /\ ksKeyset \in CodecKeysets
    /\ ksBytes = <<>>
    /\ ksAssume = FALSE
    /\ ksOut = NoKeysetOut

\* keyset.Serialize(wr)
SerializeKeyset ==
    /\ ksPc = "start"
    /\ ksBytes' = KeysetSerialize(ksKeyset)
    /\ ksPc' = "serialized"
    /\ UNCHANGED <<ksKeyset, ksAssume, ksOut>>

\* Bytes from elsewhere: the same, with a num_keys over the limit.
DeclareNumKeys ==
    /\ ksPc = "serialized"
    /\ \E n \in DeclaredNumKeys :
         ksBytes' = SubSeq(ksBytes, 1, 8) \o BigEndianPutUint64(n)
                        \o SubSeq(ksBytes, 17, Len(ksBytes))
    /\ ksPc' = "declared"
    /\ UNCHANGED <<ksKeyset, ksAssume, ksOut>>

\* DeserializeKeyset(bytes.NewReader(ksBytes), assumeKeysetValid)
DeserializeKeysetBytes ==
    /\ ksPc \in {"serialized", "declared"}
    /\ \E assumeKeysetValid \in BOOLEAN :
         /\ ksAssume' = assumeKeysetValid
         /\ ksOut' = DeserializeKeyset(ksBytes, assumeKeysetValid)
    /\ ksPc' = "deserialized"
    /\ UNCHANGED <<ksKeyset, ksBytes>>

KeysetNext ==
    \/ SerializeKeyset /\ UNCHANGED <<recoverVars, redisVars, codecVars, storeVars>>
    \/ DeclareNumKeys /\ UNCHANGED <<recoverVars, redisVars, codecVars, storeVars>>
    \/ DeserializeKeysetBytes /\ UNCHANGED <<recoverVars, redisVars, codecVars, storeVars>>

KeysetSpec == KeysetInit /\ [][KeysetNext]_vars

\* C21: for every keyset k (of at most 64 keys, as the data model has it),
\* DeserializeKeyset of Serialize(k) succeeds and yields k, the same
\* assumed-honest count and the same keys in the same order; serialized bytes
\* that declare 65 keys or more are rejected, and 64 keys are accepted.
C21_KeysetRoundTrip ==
    ksPc = "deserialized" =>
        /\ (ksBytes = KeysetSerialize(ksKeyset) /\ Len(ksKeyset.PubKeys) <= 64) =>
              /\ ~ksOut.err
              /\ ksOut.keyset.AssumedHonest = ksKeyset.AssumedHonest
              /\ ksOut.keyset.PubKeys = ksKeyset.PubKeys
        /\ U64Less(U64FromNat(64), BigEndianUint64(Slice(ksBytes, 9, 8))) =>
              ksOut.err

\* A keyset of 64 keys back from its bytes, its keys validated.
C21_Witness ==
    /\ ksPc = "deserialized"
    /\ Len(ksKeyset.PubKeys) = 64
    /\ ksBytes = KeysetSerialize(ksKeyset)
    /\ ~ksAssume
    /\ ~ksOut.err
    /\ ksOut.keyset = ksKeyset

(***************************************************************************)
(* writerForDAS: a call of Store, whatever the writer under it returns.    *)
(***************************************************************************)
\* The call about to be made: the arguments, and what dasWriter.Store is
\* going to return.
StoreInit ==
    /\ RecoverIdle
    /\ RedisIdle
    /\ CodecIdle
    /\ KeysetIdle
    /\ \E message \in StoreMessages, timeout \in TimeoutSet,
          disableFallbackStoreDataOnChain \in BOOLEAN, werr \in WriterErrors :
          \E wcert \in IF werr = "nil" THEN WriterCerts ELSE {NoCert} :
             storeLast =
                [NoStore EXCEPT !.message = message, !.timeout = timeout,
                                !.disableFallbackStoreDataOnChain =
                                    disableFallbackStoreDataOnChain,
                                !.werr = werr, !.wcert = wcert]

\* Lines 79-92.
Store ==
    /\ ~storeLast.called
    /\ LET r == StoreResult(storeLast.message, storeLast.wcert, storeLast.werr,
                            storeLast.disableFallbackStoreDataOnChain)
       IN storeLast' = [storeLast EXCEPT !.called = TRUE, !.retNil = r.retNil,
                                         !.ret = r.ret, !.err = r.err]

StoreNext ==
    \/ Store /\ UNCHANGED <<recoverVars, redisVars, codecVars, keysetVars>>

StoreSpec == StoreInit /\ [][StoreNext]_vars

\* C22: when the writer fails with ErrBatchToDasFailed, Store returns the
\* message unchanged and no error if the fallback is allowed, and an error
\* and no bytes if it is disabled; any other error of the writer is returned
\* as it is, with no bytes; when the writer succeeds the result is
\* Serialize(cert).
C22_StoreOutcomes ==
    storeLast.called =>
        LET failed == storeLast.werr \in
                         {"ErrBatchToDasFailed", "wrapped ErrBatchToDasFailed"}
        IN
        /\ (failed /\ ~storeLast.disableFallbackStoreDataOnChain) =>
              /\ ~storeLast.retNil
              /\ storeLast.ret = storeLast.message
              /\ storeLast.err = "nil"
        /\ (failed /\ storeLast.disableFallbackStoreDataOnChain) =>
              storeLast.retNil /\ storeLast.err # "nil"
        /\ (~failed /\ storeLast.werr # "nil") =>
              storeLast.retNil /\ storeLast.err = storeLast.werr
        /\ storeLast.werr = "nil" =>
              /\ ~storeLast.retNil
              /\ storeLast.ret = Serialize(storeLast.wcert)
              /\ storeLast.err = "nil"

\* The writer failed with ErrBatchToDasFailed and the fallback is disabled.
C22_Witness ==
    /\ storeLast.called
    /\ storeLast.werr = "ErrBatchToDasFailed"
    /\ storeLast.disableFallbackStoreDataOnChain
    /\ storeLast.retNil
    /\ storeLast.err = "fallback disabled"
=============================================================================
